---- MODULE Spec2Model ----
(***************************************************************************)
(* node-srt: the asynchronous facade (AsyncSRT) in front of the task-runner *)
(* worker, the socket owner (SRTSocketAsync) built on it, the server        *)
(* (SRTServer) and its connection handles (SRTServerConnection).            *)
(*                                                                          *)
(* A facade call is one record of `calls`; its index is the identity of the *)
(* request.  The host side is single threaded: every action below is one    *)
(* host-side turn (a call made by the application, a timer callback, a      *)
(* 'message' event with the promise continuations it resolves) or one step  *)
(* of the worker thread.                                                    *)
(***************************************************************************)
EXTENDS Integers, Sequences, FiniteSets, TLC

\* ------------------------------------------------------------------ bounds
\* Number of facade requests created in one behaviour.
MaxCalls == 3
\* Number of calls the application makes on the socket owner, and of
\* facade requests these calls create.
MaxOwnerOps == 5
MaxOwnerCalls == 5
\* Number of options of one setSocketFlags call.
MaxOpts == 2
\* Number of connection handles, and of calls (close, onData) made on them.
MaxConns == 2
MaxConnOps == 5

\* ------------------------------------------------------- program constants
\* SRT.ERROR, the sentinel a failed native call returns.
SRT_ERROR == -1
\* The payload size of one SRT packet (the MTU of the message API).
PAYLOAD_MAX_BYTES_PER_PACKET == 1316
\* The `null` of a socket handle that has not been created (or was closed).
NoSocket == 0

WorkerRef == "Worker"
NullRef == "null"

\* The `null` of the Error Slot, and an error descriptor.
NoError == [kind |-> "none", call |-> 0]
ErrorOf(kind, id) == [kind |-> kind, call |-> id]

VARIABLES
  worker,       \* AsyncSRT._worker: WorkerRef, or NullRef once disposed
  workCbQueue,  \* AsyncSRT._workCbQueue: ids of the calls whose onResult waits
  error,        \* AsyncSRT._error, the Error Slot
  calls,        \* every promise made by _createAsyncWorkPromise, by id
  toWorker,     \* messages posted to the worker and not yet dequeued by it
  fromWorker,   \* replies posted by the worker and not yet handled by the host
  cbLog,        \* the onResult invocations made by _onWorkerMessage, in order
  nextFd,       \* native layer: the next handle it issues
  socket,       \* SRTSocketAsync._socket
  asyncSrt,     \* SRTSocketAsync._asyncSrt is not null
  opened,       \* the owner's open() has resolved
  emitted,      \* the events the owner emitted, in order
  terminating,  \* dispose() calls awaiting worker.terminate()
  listeners,    \* the owner's events the application observes
  conns,        \* the SRTServerConnection handles constructed so far
  peers,        \* native layer: the peers connected to the listener, not yet accepted
  client,       \* the connect call made on a second facade, with a worker of its own
  ownerRet      \* the outcome of the last call made on the owner

facadeVars == <<worker, workCbQueue, error, calls, toWorker, fromWorker, cbLog, nextFd>>
ownerVars == <<socket, asyncSrt, opened, emitted, terminating, listeners>>
connVars == <<conns>>
netVars == <<peers, client>>

\* ---------------------------------------------------------------- facade
\* The part of the facade a call changes, as a value.
Facade == [worker |-> worker, workCbQueue |-> workCbQueue,
           calls |-> calls, toWorker |-> toWorker]

SetFacade(f) ==
  /\ worker' = f.worker
  /\ workCbQueue' = f.workCbQueue
  /\ calls' = f.calls
  /\ toWorker' = f.toWorker

\* AsyncSRT.isDisposed
isDisposed(f) == f.worker = NullRef

\* AsyncSRT.getError
getError == error

\* What a promise chained on a call's promise has settled to.
Unsettled == [kind |-> "pending", n |-> 0]
Undefined == [kind |-> "undefined", n |-> 0]
Value(n) == [kind |-> "value", n |-> n]

\* A promise as _createAsyncWorkPromise makes it, before the executor ran.
\* byteLength is the length of the buffer among the arguments of the call,
\* chained the promise a facade method chains on it with then().
NewCall(method, wellFormed, hasCallback, useTimeout, cont) ==
  [method |-> method, wellFormed |-> wellFormed, hasCallback |-> hasCallback,
   useTimeout |-> useTimeout, cont |-> cont,
   future |-> "pending", value |-> 0, reason |-> "none",
   rejected |-> FALSE, timer |-> "none",
   posted |-> FALSE, replied |-> FALSE, answeredBy |-> 0, plainReply |-> 0,
   submittedDisposed |-> FALSE, byteLength |-> 0, chained |-> Unsettled]

\* AsyncSRT._postAsyncWork: push the callback, post the message.  (Its own
\* disposed check returns a rejected promise the executor ignores.)
PostAsyncWorkUnguarded(f, id) ==
  [f EXCEPT !.workCbQueue = Append(@, id),
            !.toWorker = Append(@, [call |-> id,
                                    method |-> f.calls[id].method,
                                    wellFormed |-> f.calls[id].wellFormed]),
            !.calls[id].posted = TRUE]

\* _postAsyncWork that hands the request to the worker at once, ahead of
\* the request in execution.
PostAsyncWorkAhead(f, id) ==
  [f EXCEPT !.workCbQueue = Append(@, id),
            !.toWorker = <<[call |-> id,
                            method |-> f.calls[id].method,
                            wellFormed |-> f.calls[id].wellFormed]>> \o @,
            !.calls[id].posted = TRUE]

PostAsyncWork(f, id) ==
  IF isDisposed(f) THEN f ELSE PostAsyncWorkUnguarded(f, id)

\* AsyncSRT._createAsyncWorkPromise without its disposed check.
CreateAsyncWorkPromiseUnguarded(f, method, wellFormed, hasCallback, useTimeout, cont) ==
  LET id == Len(f.calls) + 1
      c == [NewCall(method, wellFormed, hasCallback, useTimeout, cont)
              EXCEPT !.timer = IF useTimeout THEN "armed" ELSE "none",
                     !.submittedDisposed = isDisposed(f)]
  IN PostAsyncWorkUnguarded([f EXCEPT !.calls = Append(@, c)], id)

\* AsyncSRT._createAsyncWorkPromise: a disposed facade returns a rejected
\* promise; otherwise the executor arms the timeout and posts the work.
CreateAsyncWorkPromise(f, method, wellFormed, hasCallback, useTimeout, cont) ==
  LET id == Len(f.calls) + 1
      c == NewCall(method, wellFormed, hasCallback, useTimeout, cont)
  IN IF isDisposed(f)
       THEN [f EXCEPT !.calls = Append(@, [c EXCEPT !.future = "rejected",
                                                    !.reason = "disposed",
                                                    !.submittedDisposed = TRUE])]
       ELSE PostAsyncWork(
              [f EXCEPT !.calls = Append(@, [c EXCEPT !.timer =
                                   IF useTimeout THEN "armed" ELSE "none"])], id)

\* The timeout callback of _createAsyncWorkPromise that also forgets the
\* callback of the timed-out call.
TimeoutCallbackDropsCallback(f, id) ==
  [f EXCEPT !.calls[id].future = "rejected",
            !.calls[id].reason = "timeout",
            !.calls[id].rejected = TRUE,
            !.calls[id].timer = "fired",
            !.workCbQueue = SelectSeq(@, LAMBDA x : x # id)]

\* The timeout callback of _createAsyncWorkPromise: reject, then rejected = true.
\* The callback stays in _workCbQueue.
TimeoutCallback(f, id) ==
  [f EXCEPT !.calls[id].future = "rejected",
            !.calls[id].reason = "timeout",
            !.calls[id].rejected = TRUE,
            !.calls[id].timer = "fired"]

\* onResult that gives up as soon as it finds the promise rejected.
OnResultSkipsLateCallback(c, data) ==
  IF c.rejected
    THEN c
    ELSE [c EXCEPT !.timer = IF c.useTimeout THEN "cleared" ELSE @,
                   !.future = "resolved",
                   !.value = data.result,
                   !.answeredBy = data.call,
                   !.plainReply = IF c.hasCallback THEN data.call ELSE @]

\* onResult that rejects the promise for an error result.
OnResultRejectsError(c, data) ==
  IF c.rejected
    THEN [c EXCEPT !.plainReply = IF c.hasCallback THEN data.call ELSE @]
    ELSE IF data.result = SRT_ERROR
      THEN [c EXCEPT !.timer = IF c.useTimeout THEN "cleared" ELSE @,
                     !.future = "rejected",
                     !.reason = "error",
                     !.plainReply = IF c.hasCallback THEN data.call ELSE @]
      ELSE [c EXCEPT !.timer = IF c.useTimeout THEN "cleared" ELSE @,
                     !.future = "resolved",
                     !.value = data.result,
                     !.answeredBy = data.call,
                     !.plainReply = IF c.hasCallback THEN data.call ELSE @]

\* onResult of _createAsyncWorkPromise, the callback kept in _workCbQueue.
\* After a timeout only the plain callback gets the result; otherwise the
\* timer is cleared, the promise resolves and the plain callback is called.
OnResult(c, data) ==
  IF c.rejected
    THEN [c EXCEPT !.plainReply = IF c.hasCallback THEN data.call ELSE @]
    ELSE [c EXCEPT !.timer = IF c.useTimeout THEN "cleared" ELSE @,
                   !.future = "resolved",
                   !.value = data.result,
                   !.answeredBy = data.call,
                   !.plainReply = IF c.hasCallback THEN data.call ELSE @]

\* Taking the most recent callback instead of the oldest.
PopCallback(q) == [callback |-> q[Len(q)], rest |-> SubSeq(q, 1, Len(q) - 1)]

\* this._workCbQueue.shift()
ShiftCallback(q) == [callback |-> Head(q), rest |-> Tail(q)]

\* The Error Slot after a reply: written when the reply carries an error.
ErrorSlotOnReply(data) == IF data.err.kind # "none" THEN data.err ELSE error

\* A callback that runs before the Error Slot is written.
ErrorSlotBeforeReply(data) == error

\* What getError() returns inside the callback _onWorkerMessage invokes:
\* this._error is assigned before callback(result).
ErrorSlotAtCallback(data) == ErrorSlotOnReply(data)

\* dispose() that leaves the pending callbacks in place.
DisposeFacadeKeepsQueue(f, inFlight) ==
  [f EXCEPT !.worker = NullRef,
            !.toWorker = SubSeq(@, 1, IF Len(@) < inFlight THEN Len(@) ELSE inFlight)]

\* AsyncSRT.dispose: drop the worker reference, flush the callback queue,
\* terminate the worker.  The worker finishes at most the request it is
\* executing (inFlight); requests not yet dispatched are discarded.
DisposeFacade(f, inFlight) ==
  [f EXCEPT !.worker = NullRef,
            !.workCbQueue = <<>>,
            !.toWorker = SubSeq(@, 1, IF Len(@) < inFlight THEN Len(@) ELSE inFlight)]

\* ---------------------------------------------------------------- worker
\* The methods whose native result is a new handle.
HandleMethods == {"createSocket", "accept", "epollCreate"}

\* What the native call of a request may do: succeed, or fail (SRT.ERROR and
\* an error descriptor); a malformed request fails in the dispatch.
\* A write of more than one packet's payload fails in message mode.
Outcomes(req) ==
  IF ~req.wellFormed THEN {"dispatch"}
  ELSE IF /\ req.method = "write"
          /\ calls[req.call].byteLength > PAYLOAD_MAX_BYTES_PER_PACKET
         THEN {"native"}
         ELSE {"ok", "native"}

\* The reply of the task runner to a request.
Reply(req, outcome) ==
  [call |-> req.call,
   result |-> IF outcome = "ok"
                THEN (IF req.method \in HandleMethods THEN nextFd
                      ELSE calls[req.call].byteLength)
                ELSE SRT_ERROR,
   err |-> IF outcome = "ok" THEN NoError ELSE ErrorOf(outcome, req.call)]

\* The task runner executes request req with the given outcome.
Execute(req, outcome) ==
  /\ toWorker' = Tail(toWorker)
  /\ fromWorker' = Append(fromWorker, Reply(req, outcome))
  /\ nextFd' = IF outcome = "ok" /\ req.method \in HandleMethods
                 THEN nextFd + 1 ELSE nextFd
  /\ calls' = [calls EXCEPT ![req.call].replied = TRUE]
  /\ UNCHANGED <<worker, workCbQueue, error, cbLog, ownerVars, connVars, client, ownerRet>>

\* The task runner: one request at a time, in order, one reply per request.
WorkerStep ==
  /\ toWorker # <<>>
  /\ \E outcome \in Outcomes(Head(toWorker)) : Execute(Head(toWorker), outcome)
  /\ UNCHANGED peers

\* The native accept of a listener returns when a peer has connected.
Runnable(req) == req.method = "accept" => peers > 0

\* The task runner of a facade that serves a listener: a connect that
\* succeeds brings the listener a peer, an accept that succeeds takes one.
ListenerWorkerStep ==
  /\ toWorker # <<>>
  /\ Runnable(Head(toWorker))
  /\ \E outcome \in Outcomes(Head(toWorker)) :
       /\ Execute(Head(toWorker), outcome)
       /\ peers' = CASE outcome = "ok" /\ Head(toWorker).method = "connect" -> peers + 1
                     [] outcome = "ok" /\ Head(toWorker).method = "accept" -> peers - 1
                     [] OTHER -> peers

\* ------------------------------------------------------------------ write
\* The byte length the caller sees on the chunk of a write call: the chunk
\* is in the transfer list of the message, posting it detaches the chunk.
ChunkByteLength(c) == IF c.posted THEN 0 ELSE c.byteLength

\* AsyncSRT.write(socket, chunk, callback) for a chunk of n bytes.
Write(f, n, hasCallback) ==
  LET f1 == CreateAsyncWorkPromise(f, "write", TRUE, hasCallback, FALSE, "write")
  IN [f1 EXCEPT !.calls[Len(f1.calls)].byteLength = n]

\* The then() of write that reads the chunk's length when the reply is in.
WriteResumedReadsChunk(c, result) ==
  [c EXCEPT !.chained = IF result # SRT_ERROR
                          THEN Value(ChunkByteLength(c)) ELSE Undefined]

\* The then() of write: the length read before the submission when the
\* result is not SRT.ERROR, nothing otherwise.
WriteResumed(c, result) ==
  [c EXCEPT !.chained = IF result # SRT_ERROR
                          THEN Value(c.byteLength) ELSE Undefined]

\* The write call whose promise has just been resolved.
Writing(w) ==
  CHOOSE id \in 1..Len(w.f.calls) :
    /\ w.f.calls[id].cont = "write"
    /\ w.f.calls[id].future = "resolved"
    /\ w.f.calls[id].chained = Unsettled

\* ----------------------------------------------------------- socket owner
\* The owner (SRTSocketAsync) and its facade, as one value.
Owner == [socket |-> socket, asyncSrt |-> asyncSrt, opened |-> opened,
          emitted |-> emitted, terminating |-> terminating,
          listeners |-> listeners]

\* The facade, the owner and the connection handles that share the facade.
World == [f |-> Facade, o |-> Owner, c |-> conns]

SetWorld(w) ==
  /\ SetFacade(w.f)
  /\ socket' = w.o.socket
  /\ asyncSrt' = w.o.asyncSrt
  /\ opened' = w.o.opened
  /\ emitted' = w.o.emitted
  /\ terminating' = w.o.terminating
  /\ listeners' = w.o.listeners
  /\ conns' = w.c
  /\ UNCHANGED netVars

\* A call of a facade method made by the owner: "pending" when the request
\* was posted, "rejected" when the facade is disposed, "typeError" when the
\* owner's _asyncSrt is already null.
FacadeCall(w, method, cont) ==
  IF ~w.o.asyncSrt
    THEN [w |-> w, status |-> "typeError"]
    ELSE [w |-> [w EXCEPT !.f = CreateAsyncWorkPromise(@, method, TRUE, FALSE, FALSE, cont)],
          status |-> IF isDisposed(w.f) THEN "rejected" ELSE "pending"]

\* create() that does not look at the socket it holds.
CreateUnguarded(w) == FacadeCall(w, "createSocket", "create")

\* SRTSocketAsync.create up to its await: a caller error when a socket
\* exists, otherwise createSocket is submitted.
Create(w) ==
  IF w.o.socket # NoSocket
    THEN [w |-> w, status |-> "throws"]
    ELSE FacadeCall(w, "createSocket", "create")

\* SRTSocketAsync.create after its await: keep the handle, emit 'created'.
CreateResumed(w, result) ==
  [w EXCEPT !.o.socket = result, !.o.emitted = Append(@, "created")]

\* SRTSocketAsync.setSocketFlags: opts.map submits one setSockOpt per option
\* before Promise.all awaits any of them.
RECURSIVE SubmitFlags(_, _)
SubmitFlags(w, n) ==
  IF n = 0 THEN w ELSE SubmitFlags(FacadeCall(w, "setSockOpt", "flag").w, n - 1)

SetSocketFlags(w, n, sameLength) ==
  IF w.o.socket = NoSocket \/ ~sameLength
    THEN [w |-> w, status |-> "throws"]
    ELSE [w |-> SubmitFlags(w, n), status |-> FacadeCall(w, "setSockOpt", "flag").status]

\* SRTClientConnection._open up to its await: connect is submitted.
ClientOpen(w) == FacadeCall(w, "connect", "open")

\* SRTClientConnection._open after its await: SRT.ERROR fails the open.
ClientOpenResumed(w, result) ==
  IF result = SRT_ERROR THEN w ELSE [w EXCEPT !.o.opened = TRUE]

\* SRTSocketAsync.open: a caller error without a socket, otherwise the
\* subclass's _open.
Open(w) ==
  IF w.o.socket = NoSocket
    THEN [w |-> w, status |-> "throws"]
    ELSE ClientOpen(w)

\* --------------------------------------------------- SRTServerConnection
\* new SRTServerConnection(asyncSrt, fd).  `emitted` are the 'closing' and
\* 'closed' events the handle emitted; `seen` has one entry per 'data'
\* event it emitted, the value of gotFirstData the observers of that event
\* read; closeIds are the close requests the handle made, closeCalls and
\* nullReturns count the close() calls and those that returned null.
NewConnection(fd) ==
  [fd |-> fd, asyncSrt |-> TRUE, gotFirstData |-> FALSE,
   emitted |-> <<>>, seen |-> <<>>,
   closeIds |-> <<>>, closeStatus |-> "none", closeCalls |-> 0, nullReturns |-> 0]

\* SRTServerConnection.isClosed
ConnIsClosed(c) == ~c.asyncSrt

\* onData() that sets the flag before it emits.
ConnOnDataSetsFirst(c) ==
  [c EXCEPT !.gotFirstData = TRUE,
            !.seen = Append(@, TRUE)]

\* onData() that never sets the flag.
ConnOnDataNeverSets(c) ==
  [c EXCEPT !.seen = Append(@, c.gotFirstData)]

\* SRTServerConnection.onData: emit('data') runs the observers at once,
\* with the flag as it was; the flag is set after emit returns.
ConnOnData(c) ==
  [c EXCEPT !.seen = Append(@, c.gotFirstData),
            !.gotFirstData = TRUE]

\* close() that does not ask isClosed() first.
ConnCloseUnguarded(w, h) ==
  LET w1 == [w EXCEPT !.c[h].closeCalls = @ + 1,
                      !.c[h].asyncSrt = FALSE,
                      !.c[h].emitted = Append(@, "closing"),
                      !.f = CreateAsyncWorkPromise(@, "close", TRUE, FALSE, FALSE, "connClose")]
  IN [w1 EXCEPT !.c[h].closeIds = Append(@, Len(w1.f.calls)),
                !.c[h].closeStatus = IF isDisposed(w.f) THEN "rejected" ELSE "pending"]

\* SRTServerConnection.close up to its await: null when closed; otherwise
\* the facade reference is cleared, 'closing' is emitted and the native
\* close is submitted on the facade the handle held.
ConnClose(w, h) ==
  IF ConnIsClosed(w.c[h])
    THEN [w EXCEPT !.c[h].closeCalls = @ + 1, !.c[h].nullReturns = @ + 1]
    ELSE LET w1 == [w EXCEPT !.c[h].closeCalls = @ + 1,
                             !.c[h].asyncSrt = FALSE,
                             !.c[h].emitted = Append(@, "closing"),
                             !.f = CreateAsyncWorkPromise(@, "close", TRUE, FALSE, FALSE, "connClose")]
         IN [w1 EXCEPT !.c[h].closeIds = Append(@, Len(w1.f.calls)),
                       !.c[h].closeStatus = IF isDisposed(w.f) THEN "rejected" ELSE "pending"]

\* `this.fd = null`: fd is an accessor with a getter only, and class code
\* is strict, so the assignment throws a TypeError; _fd keeps its value.
AssignFdNull(c) == [c EXCEPT !.closeStatus = "typeError"]

\* SRTServerConnection.close after its await: SRT.ERROR throws; otherwise
\* the assignment to fd throws, and emit('closed'), removeAllListeners()
\* and the return are not reached.
ConnCloseResumed(c, result) ==
  IF result = SRT_ERROR
    THEN [c EXCEPT !.closeStatus = "failed"]
    ELSE AssignFdNull(c)

\* The handle whose close() awaits the promise that was just resolved.
Closing(w) ==
  CHOOSE h \in 1..Len(w.c) :
    /\ w.c[h].closeStatus = "pending"
    /\ w.f.calls[w.c[h].closeIds[1]].future = "resolved"

\* ------------------------------------------------------------- SRTServer
\* A facade method called by SRTServer as `this.asyncSrt.<method>(...)`.
\* SRTServer and its base class keep the facade in the field `_asyncSrt`
\* and define the accessors address, port, socket and epid only, so
\* `this.asyncSrt` is undefined and the member access throws a TypeError:
\* no request is made.
ServerFacadeCall(w, method, cont) == [w |-> w, status |-> "typeError"]

\* SRTServer._open: its first statement is `await this.asyncSrt.bind(...)`.
\* The TypeError rejects the promise _open returns; the statements after it
\* (listen, epollCreate, emit 'opened', epollAddUsock, _pollEvents) are not
\* reached.
ServerOpenHook(w) == ServerFacadeCall(w, "bind", "bind")

\* SRTServer.open: super.open() with SRTServer._open as the hook.
ServerOpen(w) ==
  IF w.o.socket = NoSocket
    THEN [w |-> w, status |-> "throws"]
    ELSE ServerOpenHook(w)

\* SRTServer._clearTimers: _pollEventsTimer is written by _pollEvents only,
\* which _open never reaches, so the timer is null and nothing is cleared.
ClearTimers(w) == w

\* The events of the owner an application observes.
OwnerEvents == {"disposed"}

\* this.off(): EventEmitter.off is removeListener(eventName, listener), which
\* validates its listener argument first and throws for `undefined`; no
\* observer is removed.
Off(l) == l

\* SRTSocketAsync.dispose from this.emit('disposed') on.
EmitDisposed(o) ==
  [o EXCEPT !.emitted = Append(@, "disposed"), !.listeners = Off(@)]

\* dispose() whose second half forgets the facade.
DisposeFacadeStepSkipped(w, inFlight) ==
  [w |-> w, status |-> "pending"]

\* SRTSocketAsync.dispose from `if (this._asyncSrt !== null)` on: dispose
\* the facade and await the worker's termination; with no facade left,
\* emit 'disposed' and fail in this.off().  AsyncSRT.dispose of a disposed
\* facade throws.
DisposeFacadeStep(w, inFlight) ==
  IF w.o.asyncSrt
    THEN IF isDisposed(w.f)
           THEN [w |-> w, status |-> "typeError"]
           ELSE [w |-> [w EXCEPT !.f = DisposeFacade(@, inFlight),
                                 !.o.terminating = @ + 1],
                 status |-> "pending"]
    ELSE [w |-> [w EXCEPT !.o = EmitDisposed(@)], status |-> "offThrows"]

\* SRTSocketAsync.dispose up to its first await: the socket, when there is
\* one, is closed first.
DisposeOwner(w, inFlight) ==
  IF w.o.socket # NoSocket
    THEN FacadeCall(w, "close", "disposeClose")
    ELSE DisposeFacadeStep(w, inFlight)

\* SRTSocketAsync.dispose after the close reply: forget the socket, go on
\* with the facade.
DisposeResumed(w, inFlight) ==
  DisposeFacadeStep([w EXCEPT !.o.socket = NoSocket], inFlight).w

\* The code that awaits the promise of a call, run when the promise resolves.
Resume(w, cont, result, inFlight) ==
  CASE cont = "create" -> CreateResumed(w, result)
    [] cont = "open" -> ClientOpenResumed(w, result)
    [] cont = "disposeClose" -> DisposeResumed(w, inFlight)
    [] cont = "connClose" -> [w EXCEPT !.c[Closing(w)] = ConnCloseResumed(@, result)]
    [] cont = "write" -> [w EXCEPT !.f.calls[Writing(w)] = WriteResumed(@, result)]
    [] OTHER -> w

\* ------------------------------------------------------- host-side turns
\* AsyncSRT._onWorkerMessage: ignore the message once disposed; otherwise
\* shift one callback, write the Error Slot, call the callback.  A promise
\* the callback resolves resumes the code awaiting it in the same turn.
OnWorkerMessage ==
  /\ fromWorker # <<>>
  /\ LET data == Head(fromWorker) IN
     /\ fromWorker' = Tail(fromWorker)
     /\ IF isDisposed(Facade)
          THEN UNCHANGED <<worker, workCbQueue, error, calls, toWorker, cbLog, ownerVars, connVars, netVars>>
          ELSE IF workCbQueue = <<>>
            THEN /\ error' = ErrorSlotOnReply(data)
                 /\ UNCHANGED <<worker, workCbQueue, calls, toWorker, cbLog, ownerVars, connVars, netVars>>
            ELSE LET sh == ShiftCallback(workCbQueue)
                     id == sh.callback
                     w1 == [World EXCEPT !.f.workCbQueue = sh.rest,
                                         !.f.calls[id] = OnResult(@, data)]
                 IN /\ error' = ErrorSlotOnReply(data)
                    /\ cbLog' = Append(cbLog, [callback |-> id,
                                               reply |-> data.call,
                                               result |-> data.result,
                                               err |-> data.err,
                                               errSeen |-> ErrorSlotAtCallback(data),
                                               late |-> calls[id].rejected])
                    /\ IF w1.f.calls[id].future = "resolved" /\ ~calls[id].rejected
                         THEN \E inFlight \in {0, 1} :
                                SetWorld(Resume(w1, calls[id].cont, data.result, inFlight))
                         ELSE SetWorld(w1)
  /\ UNCHANGED <<nextFd, ownerRet>>

\* The timer of a call made with useTimeout expires before its reply.
TimeoutFires ==
  \E id \in 1..Len(calls) :
    /\ calls[id].timer = "armed"
    /\ SetFacade(TimeoutCallback(Facade, id))
    /\ UNCHANGED <<error, fromWorker, cbLog, nextFd, ownerVars, connVars, netVars, ownerRet>>

\* The calls the application makes on the facade, as <<method, useTimeout,
\* plain callback given, arguments well formed>>.  accept is the one method
\* that takes useTimeout; every method takes an optional plain callback.
UserCalls ==
  { <<"accept", TRUE, TRUE, TRUE>>, <<"accept", TRUE, FALSE, TRUE>>,
    <<"read", FALSE, FALSE, TRUE>>, <<"read", FALSE, TRUE, FALSE>> }

\* A call of a facade method by the application.
Submit ==
  /\ Len(calls) < MaxCalls
  /\ \E k \in UserCalls :
       SetFacade(CreateAsyncWorkPromise(Facade, k[1], k[4], k[3], k[2], "user"))
  /\ UNCHANGED <<error, fromWorker, cbLog, nextFd, ownerVars, connVars, netVars, ownerRet>>

\* The calls made on the facade that serves a listener, as <<method,
\* useTimeout>>.
ListenerCalls == { <<"accept", TRUE>>, <<"accept", FALSE>>, <<"connect", FALSE>> }

\* accept or connect called by the application on that facade.
ListenerSubmit ==
  /\ Len(calls) < MaxCalls
  /\ \E k \in ListenerCalls :
       SetFacade(CreateAsyncWorkPromise(Facade, k[1], TRUE, FALSE, k[2], "user"))
  /\ UNCHANGED <<error, fromWorker, cbLog, nextFd, ownerVars, connVars, netVars, ownerRet>>

\* connect called by the application on a second facade (asyncSrtClient).
ClientConnect ==
  /\ client.at = "idle"
  /\ client' = [client EXCEPT !.at = "posted"]
  /\ UNCHANGED <<facadeVars, ownerVars, connVars, peers, ownerRet>>

\* The task runner of the second facade executes the connect.
ClientWorkerStep ==
  /\ client.at = "posted"
  /\ \E result \in {0, SRT_ERROR} :
       /\ client' = [at |-> "replied", result |-> result]
       /\ peers' = IF result = SRT_ERROR THEN peers ELSE peers + 1
  /\ UNCHANGED <<facadeVars, ownerVars, connVars, ownerRet>>

\* _onWorkerMessage of the second facade resolves the connect.
ClientOnWorkerMessage ==
  /\ client.at = "replied"
  /\ client' = [client EXCEPT !.at = "resolved"]
  /\ UNCHANGED <<facadeVars, ownerVars, connVars, peers, ownerRet>>

\* The chunk lengths the application writes.
WriteSizes == {1, PAYLOAD_MAX_BYTES_PER_PACKET, PAYLOAD_MAX_BYTES_PER_PACKET + 1}

\* write(socket, chunk, callback) called by the application on the facade.
UserWrite ==
  /\ Len(calls) < MaxCalls
  /\ \E n \in WriteSizes, hasCallback \in BOOLEAN :
       SetFacade(Write(Facade, n, hasCallback))
  /\ UNCHANGED <<error, fromWorker, cbLog, nextFd, ownerVars, connVars, netVars, ownerRet>>

\* AsyncSRT.dispose called by the application.  (Called again it throws a
\* TypeError on the null worker and changes nothing.)
Dispose ==
  /\ ~isDisposed(Facade)
  /\ \E inFlight \in {0, 1} : SetFacade(DisposeFacade(Facade, inFlight))
  /\ UNCHANGED <<error, fromWorker, cbLog, nextFd, ownerVars, connVars, netVars, ownerRet>>

\* What the application learns from a call on the owner before the first
\* await of the call: op, the status and the number of the call.
Returned(op, status) == [op |-> op, status |-> status, n |-> ownerRet.n + 1]

\* create() called by the application.
OwnerCreate ==
  /\ ownerRet.n < MaxOwnerOps
  /\ LET r == Create(World) IN
       /\ Len(r.w.f.calls) <= MaxOwnerCalls
       /\ SetWorld(r.w)
       /\ ownerRet' = Returned("create", r.status)
  /\ UNCHANGED <<error, fromWorker, cbLog, nextFd>>

\* setSocketFlags(opts, values) called by the application.
OwnerSetSocketFlags ==
  /\ ownerRet.n < MaxOwnerOps
  /\ \E n \in 1..MaxOpts, sameLength \in BOOLEAN :
       LET r == SetSocketFlags(World, n, sameLength) IN
            /\ Len(r.w.f.calls) <= MaxOwnerCalls
            /\ SetWorld(r.w)
            /\ ownerRet' = Returned("setSocketFlags", r.status)
  /\ UNCHANGED <<error, fromWorker, cbLog, nextFd>>

\* open() called by the application.
OwnerOpen ==
  /\ ownerRet.n < MaxOwnerOps
  /\ LET r == Open(World) IN
       /\ Len(r.w.f.calls) <= MaxOwnerCalls
       /\ SetWorld(r.w)
       /\ ownerRet' = Returned("open", r.status)
  /\ UNCHANGED <<error, fromWorker, cbLog, nextFd>>

\* dispose() called by the application.
OwnerDispose ==
  /\ ownerRet.n < MaxOwnerOps
  /\ \E inFlight \in {0, 1} :
       LET r == DisposeOwner(World, inFlight) IN
         /\ Len(r.w.f.calls) <= MaxOwnerCalls
         /\ SetWorld(r.w)
         /\ ownerRet' = Returned("dispose", r.status)
  /\ UNCHANGED <<error, fromWorker, cbLog, nextFd>>

\* SRTServer.open() called by the application.
ServerOwnerOpen ==
  /\ ownerRet.n < MaxOwnerOps
  /\ LET r == ServerOpen(World) IN
       /\ Len(r.w.f.calls) <= MaxOwnerCalls
       /\ SetWorld(r.w)
       /\ ownerRet' = Returned("open", r.status)
  /\ UNCHANGED <<error, fromWorker, cbLog, nextFd>>

\* SRTServer.dispose() called by the application: _clearTimers(), then
\* super.dispose().
ServerOwnerDispose ==
  /\ ownerRet.n < MaxOwnerOps
  /\ \E inFlight \in {0, 1} :
       LET r == DisposeOwner(ClearTimers(World), inFlight) IN
         /\ Len(r.w.f.calls) <= MaxOwnerCalls
         /\ SetWorld(r.w)
         /\ ownerRet' = Returned("dispose", r.status)
  /\ UNCHANGED <<error, fromWorker, cbLog, nextFd>>

\* The number of calls made on the first n connection handles.
RECURSIVE ConnOps(_)
ConnOps(n) ==
  IF n = 0 THEN 0 ELSE ConnOps(n - 1) + conns[n].closeCalls + Len(conns[n].seen)

\* new SRTServerConnection(asyncSrt, fd) for a connection fd.
ConnNew ==
  /\ Len(conns) < MaxConns
  /\ conns' = Append(conns, NewConnection(Len(conns) + 1))
  /\ UNCHANGED <<facadeVars, ownerVars, netVars, ownerRet>>

\* close() called on a connection handle.
ConnCloseCall ==
  /\ ConnOps(Len(conns)) < MaxConnOps
  /\ \E h \in 1..Len(conns) : SetWorld(ConnClose(World, h))
  /\ UNCHANGED <<error, fromWorker, cbLog, nextFd, ownerRet>>

\* onData() called on a connection handle: a data-ready notification.
ConnData ==
  /\ ConnOps(Len(conns)) < MaxConnOps
  /\ \E h \in 1..Len(conns) : conns' = [conns EXCEPT ![h] = ConnOnData(@)]
  /\ UNCHANGED <<facadeVars, ownerVars, netVars, ownerRet>>

\* worker.terminate() resolves: SRTSocketAsync.dispose goes on after
\* `await this._asyncSrt.dispose()`.
TerminateResolved ==
  /\ terminating > 0
  /\ terminating' = terminating - 1
  /\ asyncSrt' = FALSE
  /\ emitted' = EmitDisposed(Owner).emitted
  /\ listeners' = EmitDisposed(Owner).listeners
  /\ UNCHANGED <<facadeVars, socket, opened, connVars, netVars, ownerRet>>

\* on(eventName, listener) called by the application on the owner.
OwnerOn ==
  /\ \E ev \in OwnerEvents \ listeners : listeners' = listeners \cup {ev}
  /\ UNCHANGED <<facadeVars, socket, asyncSrt, opened, emitted, terminating, connVars, netVars, ownerRet>>

vars == <<facadeVars, ownerVars, connVars, netVars, ownerRet>>

Init ==
  /\ worker = WorkerRef
  /\ workCbQueue = <<>>
  /\ error = NoError
  /\ calls = <<>>
  /\ toWorker = <<>>
  /\ fromWorker = <<>>
  /\ cbLog = <<>>
  /\ nextFd = 1
  /\ socket = NoSocket
  /\ asyncSrt = TRUE
  /\ opened = FALSE
  /\ emitted = <<>>
  /\ terminating = 0
  /\ listeners = {}
  /\ conns = <<>>
  /\ peers = 0
  /\ client = [at |-> "idle", result |-> 0]
  /\ ownerRet = [op |-> "none", status |-> "none", n |-> 0]

\* The application uses an AsyncSRT facade directly.
Next == Submit \/ Dispose \/ TimeoutFires \/ WorkerStep \/ OnWorkerMessage

Spec == Init /\ [][Next]_vars

\* The application uses a socket owner.
NextOwner ==
  \/ OwnerCreate
  \/ OwnerSetSocketFlags
  \/ OwnerOpen
  \/ OwnerDispose
  \/ TerminateResolved
  \/ WorkerStep
  \/ OnWorkerMessage

SpecOwner == Init /\ [][NextOwner]_vars

\* The application uses a socket owner and observes its events.
NextObserved ==
  \/ OwnerCreate
  \/ OwnerSetSocketFlags
  \/ OwnerOpen
  \/ OwnerDispose
  \/ OwnerOn
  \/ TerminateResolved
  \/ WorkerStep
  \/ OnWorkerMessage

SpecObserved == Init /\ [][NextObserved]_vars

\* The application uses an SRTServer.
NextServer ==
  \/ OwnerCreate
  \/ OwnerSetSocketFlags
  \/ ServerOwnerOpen
  \/ ServerOwnerDispose
  \/ TerminateResolved
  \/ WorkerStep
  \/ OnWorkerMessage

SpecServer == Init /\ [][NextServer]_vars

\* The application uses connection handles on one facade.
NextConnection ==
  \/ ConnNew
  \/ ConnCloseCall
  \/ ConnData
  \/ Dispose
  \/ WorkerStep
  \/ OnWorkerMessage

SpecConnection == Init /\ [][NextConnection]_vars

\* The application writes chunks on an AsyncSRT facade.
NextWrite == UserWrite \/ Dispose \/ WorkerStep \/ OnWorkerMessage

SpecWrite == Init /\ [][NextWrite]_vars

\* The application accepts on one facade and connects to its listener from
\* that facade or from a second one.  Worker threads run when they have a
\* request and the host handles every message posted to it.
NextAccept ==
  \/ ListenerSubmit
  \/ TimeoutFires
  \/ ListenerWorkerStep
  \/ OnWorkerMessage
  \/ ClientConnect
  \/ ClientWorkerStep
  \/ ClientOnWorkerMessage

SpecAccept ==
  /\ Init /\ [][NextAccept]_vars
  /\ WF_vars(ListenerWorkerStep) /\ WF_vars(OnWorkerMessage)
  /\ WF_vars(ClientWorkerStep) /\ WF_vars(ClientOnWorkerMessage)

\* ------------------------------------------------------------ the claims
\* The ids of the requests posted to the worker, in submission order.
Submitted == SelectSeq([i \in 1..Len(calls) |-> i], LAMBDA i : calls[i].posted)

\* The index of the onResult invocation of call id in cbLog, 0 when none.
Delivered(id) == \E k \in 1..Len(cbLog) : cbLog[k].callback = id

TimedOut(id) == calls[id].timer = "fired"

\* C1: the k-th reply handled by the facade answers the k-th submitted
\* request and is passed to the callback of that request, and of no other.
C1_CallbacksInSubmissionOrder ==
  /\ Len(cbLog) <= Len(Submitted)
  /\ \A k \in 1..Len(cbLog) :
       /\ cbLog[k].reply = Submitted[k]
       /\ cbLog[k].callback = Submitted[k]

C1_Witness ==
  /\ ~isDisposed(Facade)
  /\ Len(cbLog) >= 3
  /\ \E k \in 1..Len(cbLog) : cbLog[k].late

\* C2: a call whose timeout expired has a future failed with the timeout
\* error for good; until its reply comes its callback is still queued; the
\* late reply goes to its plain callback, when it has one, and resolves
\* nothing.
C2_TimeoutKeepsCallback ==
  \A id \in 1..Len(calls) :
    TimedOut(id) =>
      /\ calls[id].future = "rejected"
      /\ calls[id].reason = "timeout"
      /\ calls[id].answeredBy = 0
      /\ (~Delivered(id) /\ ~isDisposed(Facade)) =>
            \E i \in 1..Len(workCbQueue) : workCbQueue[i] = id
      /\ Delivered(id) =>
            calls[id].plainReply = (IF calls[id].hasCallback THEN id ELSE 0)

C2_Witness ==
  \E id \in 1..Len(calls) :
    /\ TimedOut(id)
    /\ Delivered(id)
    /\ calls[id].hasCallback
    /\ calls[id].plainReply = id
    /\ calls[id].future = "rejected"

\* C3: a future submitted after a timed-out call resolves with the reply to
\* its own request, and only after every earlier request was answered.
C3_TimeoutsKeepQueueAligned ==
  \A id \in 1..Len(calls) :
    (calls[id].future = "resolved" /\ \E j \in 1..(id - 1) : TimedOut(j)) =>
      /\ calls[id].answeredBy = id
      /\ \A j \in 1..(id - 1) : calls[j].posted => Delivered(j)

C3_Witness ==
  \E id \in 1..Len(calls), j \in 1..Len(calls) :
    /\ j < id
    /\ TimedOut(j)
    /\ calls[j].method = "accept"
    /\ calls[id].future = "resolved"
    /\ calls[id].value # SRT_ERROR

C5_DispatchErrorRejects ==
  \A k \in 1..Len(cbLog) :
    cbLog[k].err.kind = "dispatch" => calls[cbLog[k].callback].future = "rejected"

\* C6: when a reply carries an error descriptor, getError() called inside
\* the request's callback returns that descriptor.
C6_ErrorSlotBeforeCallback ==
  \A k \in 1..Len(cbLog) :
    cbLog[k].err.kind # "none" => cbLog[k].errSeen = cbLog[k].err

C6_Witness ==
  \E k \in 1..Len(cbLog), j \in 1..Len(cbLog) :
    /\ j < k
    /\ cbLog[j].err.kind # "none"
    /\ cbLog[k].err.kind # "none"
    /\ cbLog[k].errSeen = cbLog[k].err
    /\ getError = cbLog[Len(cbLog)].err

\* C7: a call made on a disposed facade is rejected with the disposed-state
\* error at once; no message is posted for it and no callback is queued.
C7_DisposedSubmissionFails ==
  \A id \in 1..Len(calls) :
    calls[id].submittedDisposed =>
      /\ calls[id].future = "rejected"
      /\ calls[id].reason = "disposed"
      /\ ~calls[id].posted
      /\ \A i \in 1..Len(workCbQueue) : workCbQueue[i] # id
      /\ \A i \in 1..Len(toWorker) : toWorker[i].call # id

C7_Witness ==
  \E id \in 1..Len(calls), j \in 1..Len(calls) :
    /\ j < id
    /\ calls[j].posted
    /\ calls[id].submittedDisposed
    /\ calls[id].reason = "disposed"

\* C8: from the moment the facade is disposed the callback queue is empty
\* and no callback is invoked any more: not by dispose, not by a reply
\* that arrives later.
C8_DisposeFlushesSilently ==
  [][(worker' = NullRef) => (workCbQueue' = <<>> /\ cbLog' = cbLog)]_vars

C8_Witness ==
  /\ isDisposed(Facade)
  /\ \E id \in 1..Len(calls) :
       /\ calls[id].posted
       /\ calls[id].replied
       /\ ~Delivered(id)
       /\ calls[id].future = "pending"
       /\ \A i \in 1..Len(fromWorker) : fromWorker[i].call # id

\* The lifecycle state of the owner.  It is disposed from the moment its
\* facade is (every later request fails); _asyncSrt becomes null when the
\* worker has terminated.
OwnerState ==
  IF isDisposed(Facade) \/ ~asyncSrt THEN "Disposed"
  ELSE IF opened THEN "Open"
  ELSE IF socket # NoSocket THEN "Created"
  ELSE "None"

Rank(state) ==
  CASE state = "None" -> 0
    [] state = "Created" -> 1
    [] state = "Open" -> 2
    [] state = "Disposed" -> 3

\* C9: no step takes the owner from a lifecycle state back to an earlier
\* one of None, Created, Open, Disposed; Disposed is never left.
C9_LifecycleForward ==
  [][Rank(OwnerState') >= Rank(OwnerState)]_vars

C9_Witness ==
  /\ OwnerState = "Disposed"
  /\ opened
  /\ socket = NoSocket
  /\ ~asyncSrt
  /\ \E i \in 1..Len(emitted) : emitted[i] = "created"
  /\ \E i \in 1..Len(emitted) : emitted[i] = "disposed"
  /\ \E id \in 1..Len(calls) : calls[id].replied /\ ~Delivered(id)

\* C10: create() on an owner that holds a socket fails as a caller error:
\* no request is made, the handle stays, nothing is emitted.
C10_CreateTwiceFails ==
  [][(ownerRet'.n = ownerRet.n + 1 /\ ownerRet'.op = "create" /\ socket # NoSocket) =>
       /\ ownerRet'.status = "throws"
       /\ calls' = calls
       /\ toWorker' = toWorker
       /\ workCbQueue' = workCbQueue
       /\ socket' = socket
       /\ emitted' = emitted]_vars

C10_Witness ==
  /\ ownerRet.op = "create"
  /\ ownerRet.status = "throws"
  /\ socket # NoSocket
  /\ socket # SRT_ERROR
  /\ ~isDisposed(Facade)

\* C11: open() called in any lifecycle state but Created (before create(),
\* after an open() that succeeded, after dispose()) fails at the call and
\* submits nothing to the facade.
C11_OpenOnlyFromCreated ==
  [][(ownerRet'.n = ownerRet.n + 1 /\ ownerRet'.op = "open" /\ OwnerState # "Created") =>
       /\ ownerRet'.status = "throws"
       /\ calls' = calls
       /\ toWorker' = toWorker
       /\ workCbQueue' = workCbQueue]_vars

\* C12: setSocketFlags() called in any lifecycle state but Created fails
\* and submits no request; called in state Created with as many values as
\* options it posts one setSockOpt per option, in option order, before any
\* of them is answered.
C12_FlagsOnlyWhileCreated ==
  [][(ownerRet'.n = ownerRet.n + 1 /\ ownerRet'.op = "setSocketFlags") =>
       IF OwnerState = "Created"
         THEN ownerRet'.status = "pending" =>
                /\ Len(calls') > Len(calls)
                /\ Len(toWorker') = Len(toWorker) + (Len(calls') - Len(calls))
                /\ \A id \in (Len(calls) + 1)..Len(calls') :
                     /\ calls'[id].method = "setSockOpt"
                     /\ calls'[id].posted
                     /\ ~calls'[id].replied
                     /\ toWorker'[Len(toWorker) + (id - Len(calls))].call = id
         ELSE /\ ownerRet'.status = "throws"
              /\ calls' = calls
              /\ toWorker' = toWorker
              /\ workCbQueue' = workCbQueue]_vars

\* The number of times the owner emitted ev.
Emitted(ev) == Cardinality({i \in 1..Len(emitted) : emitted[i] = ev})

\* Every step of a dispose() has completed: the socket is closed, the
\* facade is gone and 'disposed' was emitted.
DisposeCompleted == socket = NoSocket /\ ~asyncSrt /\ Emitted("disposed") > 0

\* C13: a dispose() called after a completed one submits nothing and emits
\* nothing; a dispose() called when the socket is already closed submits
\* no other close.
C13_DisposeIdempotent ==
  [][(ownerRet'.n = ownerRet.n + 1 /\ ownerRet'.op = "dispose") =>
       /\ DisposeCompleted =>
            /\ calls' = calls
            /\ toWorker' = toWorker
            /\ emitted' = emitted
       /\ socket = NoSocket =>
            \A id \in (Len(calls) + 1)..Len(calls') : calls'[id].method # "close"]_vars

\* C14: for an owner that created a socket, the facade is disposed only
\* when the socket's close was answered, 'disposed' is emitted only when
\* the socket is closed and the facade is disposed, and the step that emits
\* 'disposed' leaves no observer attached.
C14_DisposeOrder ==
  [][Emitted("created") > 0 =>
       /\ (isDisposed(Facade') /\ ~isDisposed(Facade)) => socket' = NoSocket
       /\ Emitted("disposed")' > Emitted("disposed") =>
            /\ socket' = NoSocket
            /\ isDisposed(Facade')
            /\ ~asyncSrt'
            /\ listeners' = {}]_vars

\* C15: open() called on a server in state Created starts the opening
\* sequence: it submits bind to the facade and waits for the reply.
C15_ServerOpenSequence ==
  [][(ownerRet'.n = ownerRet.n + 1 /\ ownerRet'.op = "open" /\ OwnerState = "Created") =>
       /\ ownerRet'.status = "pending"
       /\ Len(calls') = Len(calls) + 1
       /\ calls'[Len(calls')].method = "bind"
       /\ calls'[Len(calls')].posted]_vars

\* The number of times handle h emitted ev ('closing', 'closed').
ConnEmitted(h, ev) ==
  Cardinality({i \in 1..Len(conns[h].emitted) : conns[h].emitted[i] = ev})

\* The connection handles that were closed.
ClosedConns == {h \in 1..Len(conns) : ConnIsClosed(conns[h])}

\* C16: the server has emitted one 'disconnection' for every connection
\* that was closed, and none for a connection that was not.
C16_OneDisconnectionPerClose ==
  Emitted("disconnection") = Cardinality(ClosedConns)

\* C18 as stated: the observers of a connection's first 'data' event read
\* gotFirstData as true.
C18_FlagSetBeforeObservers ==
  \A h \in 1..Len(conns) :
    Len(conns[h].seen) >= 1 => conns[h].seen[1] = TRUE

\* C18, amended: the observers of a connection's first 'data' event read
\* gotFirstData as false; the flag is set when they have returned, so it
\* is true once the first data-ready notification was handled, and not
\* before.
C18_FlagSetAfterObservers ==
  \A h \in 1..Len(conns) :
    /\ Len(conns[h].seen) >= 1 => conns[h].seen[1] = FALSE
    /\ conns[h].gotFirstData = (Len(conns[h].seen) >= 1)

C18_Witness ==
  \E h \in 1..Len(conns) :
    /\ Len(conns[h].seen) = 1
    /\ conns[h].seen[1] = FALSE
    /\ conns[h].gotFirstData

\* The first-data actions run by an observer of 'data' that acts only when
\* it reads gotFirstData as false.
FirstDataActions(h) ==
  Cardinality({k \in 1..Len(conns[h].seen) : ~conns[h].seen[k]})

\* C19: the observers of every 'data' event after a connection's first
\* read gotFirstData as true, those of the first read it as false, and an
\* observer that acts only on false has acted once when there was a 'data'
\* event and never before.
C19_FirstDataOnce ==
  \A h \in 1..Len(conns) :
    /\ \A k \in 1..Len(conns[h].seen) : conns[h].seen[k] = (k > 1)
    /\ FirstDataActions(h) = (IF Len(conns[h].seen) >= 1 THEN 1 ELSE 0)

C19_Witness ==
  \E h \in 1..Len(conns), g \in 1..Len(conns) :
    /\ h # g
    /\ Len(conns[h].seen) >= 3
    /\ conns[h].seen[3]
    /\ Len(conns[g].seen) >= 2
    /\ FirstDataActions(h) = 1
    /\ FirstDataActions(g) = 1

\* C20: whatever close() calls were made on a handle, it emitted 'closing'
\* at most once and made at most one close request; every call but the
\* first returned null.
C20_OneEffectiveClose ==
  \A h \in 1..Len(conns) :
    /\ ConnEmitted(h, "closing") <= 1
    /\ Len(conns[h].closeIds) <= 1
    /\ Cardinality({id \in 1..Len(calls) : calls[id].cont = "connClose"})
         <= Cardinality(ClosedConns)
    /\ conns[h].closeCalls >= 1 =>
         /\ ConnEmitted(h, "closing") = 1
         /\ Len(conns[h].closeIds) = 1
         /\ conns[h].nullReturns = conns[h].closeCalls - 1

C20_Witness ==
  \E h \in 1..Len(conns) :
    /\ conns[h].closeCalls >= 3
    /\ conns[h].nullReturns >= 2
    /\ conns[h].closeStatus = "typeError"
    /\ \E k \in 1..Len(cbLog) :
         /\ cbLog[k].callback = conns[h].closeIds[1]
         /\ cbLog[k].result # SRT_ERROR

\* The reply to the close request of handle h was delivered to close().
CloseAnswered(h) ==
  /\ conns[h].closeIds # <<>>
  /\ calls[conns[h].closeIds[1]].future = "resolved"

\* C21: a handle is closed from the moment it emitted 'closing'; when the
\* native close was answered without ERROR the handle has emitted 'closing'
\* and then 'closed'; when it was answered with ERROR, close() has failed
\* and the handle is closed all the same.
C21_CloseEmitsClosed ==
  \A h \in 1..Len(conns) :
    /\ ConnIsClosed(conns[h]) = (ConnEmitted(h, "closing") = 1)
    /\ (CloseAnswered(h) /\ calls[conns[h].closeIds[1]].value # SRT_ERROR) =>
         conns[h].emitted = <<"closing", "closed">>
    /\ (CloseAnswered(h) /\ calls[conns[h].closeIds[1]].value = SRT_ERROR) =>
         /\ conns[h].closeStatus = "failed"
         /\ ConnIsClosed(conns[h])


\* The write calls made so far.
Writes == {id \in 1..Len(calls) : calls[id].method = "write"}

C23_OversizeWriteResolvesError ==
  \A id \in Writes :
    calls[id].chained # Unsettled =>
      /\ calls[id].byteLength > PAYLOAD_MAX_BYTES_PER_PACKET
           => calls[id].chained = Value(SRT_ERROR)
      /\ (/\ calls[id].byteLength = PAYLOAD_MAX_BYTES_PER_PACKET
          /\ calls[id].value # SRT_ERROR)
           => calls[id].chained = Value(PAYLOAD_MAX_BYTES_PER_PACKET)

\* The server step of the loopback test, create().then(s => s.open()):
\* open() is called as the second call on a server whose create() has
\* resolved with a socket.
LoopbackServerStep ==
  /\ ownerRet.n = 1 /\ ownerRet.op = "create"
  /\ Emitted("created") = 1 /\ socket > NoSocket
  /\ ownerRet'.n = 2 /\ ownerRet'.op = "open"

\* C24: in the loopback test the server reads, slice after slice, the
\* buffer the client wrote.  The test awaits the server step before the
\* client connects and writes: open() is under way after that step, a
\* failed open() leaves the server nothing to read.
C24_LoopbackDelivers ==
  [][LoopbackServerStep => ownerRet'.status = "pending"]_vars

\* The worker executes an accept and no peer has connected.
AcceptBlocked ==
  toWorker # <<>> /\ Head(toWorker).method = "accept" /\ peers = 0

\* The accept calls made on the facade.
Accepts == {id \in 1..Len(calls) : calls[id].method = "accept"}

\* The first accept made on the facade has returned in the worker.
FirstAcceptReturned ==
  \E id \in Accepts : calls[id].replied /\ \A other \in Accepts : id <= other

\* C25: while the worker executes an accept with no peer connected and no
\* connect was made on a second facade, the accept stays in execution and
\* no request of the facade is answered, a connect queued behind it
\* included; when the connect is made on a second facade it completes, and
\* the first accept returns when that connect succeeded.
C25_SharedFacadeDeadlocks ==
  /\ [][(AcceptBlocked /\ client'.at = "idle") =>
          /\ AcceptBlocked'
          /\ Head(toWorker') = Head(toWorker)
          /\ \A id \in 1..Len(calls) : calls'[id].replied = calls[id].replied]_vars
  /\ (Accepts # {} /\ client.at # "idle")
       ~> (/\ client.at = "resolved"
           /\ client.result # SRT_ERROR => FirstAcceptReturned)

\* The worker executes an accept with no peer, and a connect made on the
\* same facade waits behind it.
C25_Witness ==
  /\ AcceptBlocked
  /\ client.at = "idle"
  /\ \E i \in 2..Len(toWorker) : toWorker[i].method = "connect"

\* Every request made so far was answered without an error, and its reply
\* was handled.
AllAnswered ==
  /\ toWorker = <<>> /\ fromWorker = <<>>
  /\ \A id \in 1..Len(calls) :
       calls[id].future = "resolved" /\ calls[id].value # SRT_ERROR

\* C29: open() passes the server's backlogSize to listen: when open() was
\* the last call on a server with a socket and every request was answered
\* without error, a listen request was made.
C29_ListenGetsBacklog ==
  (/\ ownerRet.op = "open" /\ ownerRet.status # "throws"
   /\ socket > NoSocket /\ AllAnswered)
    => \E id \in 1..Len(calls) : calls[id].method = "listen"

\* The createSocket requests the owner has submitted to the worker.
CreateSocketRequests ==
  {id \in 1..Len(calls) : calls[id].method = "createSocket" /\ calls[id].posted}

\* C32: whatever the interleaving of create() calls on one owner, at most
\* one createSocket request is submitted, and a socket handle the owner
\* holds is never replaced by another handle.
C32_OneCreateSocketRequest ==
  [][/\ Cardinality(CreateSocketRequests') <= 1
     /\ socket > NoSocket => socket' \in {socket, NoSocket}]_vars

====
